---------------------------- MODULE Spec2Model ----------------------------
(***************************************************************************)
(* A model of cursive_tree_view: the TreeView widget of src/lib.rs on top  *)
(* of the flattened, pre-order TreeList it owns.                           *)
(*                                                                         *)
(* src/lib.rs is modelled from its code.  The module tree_list (declared   *)
(* at src/lib.rs:31, not part of the sources at hand) is modelled from the *)
(* written specification of the tree model (spec.md sections 3 and 4.1);   *)
(* these definitions are grouped under "TreeList".                         *)
(*                                                                         *)
(* Storage indices and rows are 0-based as in the code; the node at        *)
(* storage index i of a sequence its is its[i + 1].                        *)
(***************************************************************************)
EXTENDS Integers, Sequences, FiniteSets, TLC

(***************************************************************************)
(* Bounds of the model.                                                    *)
(***************************************************************************)
\* Largest storage length callers build when they only edit the tree.
MaxLen == 3

\* Largest storage length callers build when they also send events.
ViewLen == 2

\* Largest storage length callers build when they set up a tree, register
\* callbacks and send events to it.
EventLen == 3

\* Largest storage length callers build when they only insert children and
\* remove.
ScenarioLen == 4

\* Largest storage length callers build when they build a tree, fold it, read
\* its items and have it drawn.
DrawLen == 3

\* Largest storage length callers build when they navigate a long list: more
\* than PageStep rows above and below some row.
NavLen == 12

\* The payloads callers insert (T = String).  A caller that builds a tree of
\* at most cap nodes uses the first cap of them, and inserts a value that is
\* not in the tree yet, so that a value identifies its node.
ValueNames == << "root", "1", "2", "3", "4", "5", "6", "7" >>

Values(cap) == {ValueNames[i] : i \in 1 .. cap}

\* the values of Values(cap) that are not in the storage its
FreshValues(cap, its) ==
    {v \in Values(cap) : \A j \in 1 .. Len(its) : its[j].value # v}

Placements == {"Child", "SiblingBefore", "SiblingAfter"}

(***************************************************************************)
(* usize.  The code's usize arithmetic is unchecked in a release build     *)
(* (wraps modulo 2^64) and checked in a debug build (panics).  The model   *)
(* keeps the wrap-around but narrows the width to UsizeBits so that TLC's  *)
(* 32-bit integers can hold it.                                            *)
(***************************************************************************)
UsizeBits == 5

UsizeModulus == 2 ^ UsizeBits

\* a - b as computed by a release build
wrapping_sub(a, b) == (a - b + UsizeModulus) % UsizeModulus

\* a + b as computed by a release build
wrapping_add(a, b) == (a + b) % UsizeModulus

Min(a, b) == IF a <= b THEN a ELSE b

(***************************************************************************)
(* TreeList: the flattened tree.  A node is a record                       *)
(*   [value, level, children, collapsed]                                   *)
(* (the field names lib.rs reads in draw): level is the depth, children    *)
(* the number of descendants.                                              *)
(***************************************************************************)
TreeNode(v, l) == [value |-> v, level |-> l, children |-> 0, collapsed |-> FALSE]

\* item_skip as it would be if the walk descended into collapsed nodes
item_skip_into_collapsed(item) == 1

\* How far the skip-on-collapsed walk advances over one node.
item_skip(item) == IF item.collapsed THEN item.children + 1 ELSE 1

RECURSIVE visual_walk(_, _, _)
\* n steps of the skip-on-collapsed walk from storage index i; the walk stops
\* where it leaves the storage.
visual_walk(its, i, n) ==
    IF n = 0 \/ i >= Len(its)
    THEN i
    ELSE visual_walk(its, i + item_skip(its[i + 1]), n - 1)

\* row -> storage index
visual_index(its, row) == visual_walk(its, 0, row)

RECURSIVE height_from(_, _)
height_from(its, i) ==
    IF i >= Len(its) THEN 0 ELSE 1 + height_from(its, i + item_skip(its[i + 1]))

\* number of visible rows
height(its) == height_from(its, 0)

\* storage indices of the proper ancestors of the node at storage index i
Ancestors(its, i) == {a \in 0 .. (i - 1) : a + its[a + 1].children >= i}

\* its with the descendant count of every node whose index is in S changed by d
add_children(its, S, d) ==
    [j \in 1 .. Len(its) |->
        IF (j - 1) \in S THEN [its[j] EXCEPT !.children = @ + d] ELSE its[j]]

\* the storage index insert gives the new node
insert_index(its, placement, index) ==
    IF its = <<>> THEN 0
    ELSE CASE placement = "Child" -> index + 1
           [] placement = "SiblingBefore" -> index
           [] placement = "SiblingAfter" -> index + its[index + 1].children + 1

\* the depth insert gives the new node
insert_level(its, placement, index) ==
    IF its = <<>> THEN 0
    ELSE IF placement = "Child" THEN its[index + 1].level + 1
    ELSE its[index + 1].level

\* insert as it would be if it left the descendant counts of the ancestors alone
insert_without_count_update(its, placement, index, v) ==
    IF its = <<>> THEN << TreeNode(v, 0) >>
    ELSE LET pos == insert_index(its, placement, index)
         IN  SubSeq(its, 1, pos)
               \o << TreeNode(v, insert_level(its, placement, index)) >>
               \o SubSeq(its, pos + 1, Len(its))

\* the storage after insert(placement, index, value); index is valid or its empty
insert(its, placement, index, v) ==
    IF its = <<>> THEN << TreeNode(v, 0) >>
    ELSE LET pos == insert_index(its, placement, index)
             anc == Ancestors(its, index)
                      \cup (IF placement = "Child" THEN {index} ELSE {})
             bumped == add_children(its, anc, 1)
         IN  SubSeq(bumped, 1, pos)
               \o << TreeNode(v, insert_level(its, placement, index)) >>
               \o SubSeq(bumped, pos + 1, Len(bumped))

\* the values of its, in storage order
values_of(its) == [j \in 1 .. Len(its) |-> its[j].value]

\* the storage after remove_with_children(index), index valid
remove_with_children(its, index) ==
    LET c == its[index + 1].children
        cut == add_children(its, Ancestors(its, index), 0 - (c + 1))
    IN  SubSeq(cut, 1, index) \o SubSeq(cut, index + c + 2, Len(cut))

\* the values remove_with_children(index) returns, index valid
removed_values(its, index) ==
    values_of(SubSeq(its, index + 1, index + 1 + its[index + 1].children))

\* the storage after remove(index), index valid: the node alone leaves, its
\* descendants move up one level
remove(its, index) ==
    LET c == its[index + 1].children
        cut == add_children(its, Ancestors(its, index), 0 - 1)
        up == [j \in 1 .. Len(cut) |->
                 IF j - 1 > index /\ j - 1 <= index + c
                 THEN [cut[j] EXCEPT !.level = @ - 1] ELSE cut[j]]
    IN  SubSeq(up, 1, index) \o SubSeq(up, index + 2, Len(up))

\* the storage after set_collapsed(index, collapsed), index valid
list_set_collapsed(its, index, collapsed) ==
    [its EXCEPT ![index + 1].collapsed = collapsed]

(***************************************************************************)
(* TreeView: the state of one view.                                        *)
(***************************************************************************)
VARIABLES
    items,            \* list.items: the storage, a sequence of nodes
    focus,            \* the focused row
    enabled,          \* the enabled flag
    on_submit,        \* TRUE iff a submit callback is registered
    on_select,        \* TRUE iff a select callback is registered
    on_collapse,      \* TRUE iff a collapse callback is registered
    overflow_checks,  \* the build: TRUE = arithmetic overflow panics (debug)
    panicked,         \* TRUE once a call has panicked
    last              \* the last call: its arguments, the state it started
                      \* from and what it returned

vars == << items, focus, enabled, on_submit, on_select, on_collapse,
           overflow_checks, panicked, last >>

\* no callback
NoCallback == [kind |-> "none", row |-> 0, collapsed |-> FALSE]

\* Callback::from_fn(|s| cb(s, row)) of the select or the submit callback
RowCallback(kind, r) == [kind |-> kind, row |-> r, collapsed |-> FALSE]

\* Callback::from_fn(|s| cb(s, row, collapsed)) of the collapse callback
CollapseCallback(r, c) == [kind |-> "collapse", row |-> r, collapsed |-> c]

\* The record of a call of op on the current state: some/vals are the
\* returned Option or Vec (some = FALSE: None or no return value), idx a
\* returned index, removed the values the list handed to remove_item or
\* extract_item, result/callback the EventResult of on_event, underflow
\* whether the call subtracted below zero.
Call(op, r) ==
    [op |-> op, row |-> r, placement |-> "-", value |-> "-", key |-> "-",
     before |-> items, focus_before |-> focus,
     some |-> FALSE, vals |-> << >>, idx |-> 0, removed |-> << >>,
     result |-> "-", callback |-> NoCallback, underflow |-> FALSE]

TreeView_new ==
    /\ items = << >>
    /\ focus = 0
    /\ enabled = TRUE
    /\ on_submit = FALSE
    /\ on_select = FALSE
    /\ on_collapse = FALSE
    /\ panicked = FALSE
    /\ last = [op |-> "new", row |-> 0, placement |-> "-", value |-> "-",
               key |-> "-", before |-> << >>, focus_before |-> 0,
               some |-> FALSE, vals |-> << >>, idx |-> 0, removed |-> << >>,
               result |-> "-", callback |-> NoCallback, underflow |-> FALSE]

Init == TreeView_new /\ overflow_checks \in BOOLEAN

\* list.len()
len == Len(items)

\* list.is_empty()
is_empty == items = << >>

\* row(): << >> is None, << r >> is Some(r)
row == IF is_empty THEN << >> ELSE << focus >>

callbacks == << on_submit, on_select, on_collapse >>

\* The rows callers pass: every row that exists and at least one that does
\* not (the storage length is never a row).
Rows == 0 .. Len(items)

(***************************************************************************)
(* The public surface of TreeView; every call needs a view that has not    *)
(* panicked.                                                               *)
(***************************************************************************)
disable ==
    /\ ~panicked
    /\ enabled' = FALSE
    /\ last' = Call("disable", 0)
    /\ UNCHANGED << items, focus, callbacks, overflow_checks, panicked >>

enable ==
    /\ ~panicked
    /\ enabled' = TRUE
    /\ last' = Call("enable", 0)
    /\ UNCHANGED << items, focus, callbacks, overflow_checks, panicked >>

set_enabled ==
    /\ ~panicked
    /\ \E b \in BOOLEAN :
         /\ enabled' = b
         /\ last' = [Call("set_enabled", 0) EXCEPT
                        !.value = IF b THEN "true" ELSE "false"]
    /\ UNCHANGED << items, focus, callbacks, overflow_checks, panicked >>

set_on_submit ==
    /\ ~panicked
    /\ on_submit' = TRUE
    /\ last' = Call("set_on_submit", 0)
    /\ UNCHANGED << items, focus, enabled, on_select, on_collapse,
                    overflow_checks, panicked >>

set_on_select ==
    /\ ~panicked
    /\ on_select' = TRUE
    /\ last' = Call("set_on_select", 0)
    /\ UNCHANGED << items, focus, enabled, on_submit, on_collapse,
                    overflow_checks, panicked >>

set_on_collapse ==
    /\ ~panicked
    /\ on_collapse' = TRUE
    /\ last' = Call("set_on_collapse", 0)
    /\ UNCHANGED << items, focus, enabled, on_submit, on_select,
                    overflow_checks, panicked >>

clear ==
    /\ ~panicked
    /\ items' = << >>
    /\ focus' = 0
    /\ last' = Call("clear", 0)
    /\ UNCHANGED << enabled, callbacks, overflow_checks, panicked >>

take_items ==
    /\ ~panicked
    /\ items' = << >>
    /\ focus' = 0
    /\ last' = [Call("take_items", 0) EXCEPT !.some = TRUE,
                                             !.vals = values_of(items)]
    /\ UNCHANGED << enabled, callbacks, overflow_checks, panicked >>

\* set_selected_row(row_index); callers pass a row that exists
set_selected_row ==
    /\ ~panicked
    /\ \E r \in Rows :
         /\ r < height(items)
         /\ focus' = r
         /\ last' = Call("set_selected_row", r)
    /\ UNCHANGED << items, enabled, callbacks, overflow_checks, panicked >>

\* what list.get(index) yields: << >> is None
get(its, index) == IF index < Len(its) THEN << its[index + 1].value >> ELSE << >>

\* borrow_item as it would be if it took the row for the storage index
borrow_item_by_index ==
    /\ ~panicked
    /\ \E r \in Rows :
         last' = [Call("borrow_item", r) EXCEPT
                    !.some = (get(items, r) # << >>),
                    !.vals = get(items, r)]
    /\ UNCHANGED << items, focus, enabled, callbacks, overflow_checks, panicked >>

borrow_item ==
    /\ ~panicked
    /\ \E r \in Rows :
         LET index == visual_index(items, r)
         IN  last' = [Call("borrow_item", r) EXCEPT
                        !.some = (get(items, index) # << >>),
                        !.vals = get(items, index)]
    /\ UNCHANGED << items, focus, enabled, callbacks, overflow_checks, panicked >>

(***************************************************************************)
(* Row-addressed mutation.  Every call translates its row with             *)
(* visual_index and hands the storage index to the list.                   *)
(***************************************************************************)
\* insert_item_result as it would be if insert_item returned the storage
\* index of the reference node
insert_item_result_reference(its, placement, r) == visual_index(its, r)

\* the index insert_item(item, placement, r) returns
insert_item_result(its, placement, r) ==
    insert_index(its, placement, visual_index(its, r))

\* the storage after insert_item(v, placement, r)
insert_item_items(its, placement, r, v) ==
    insert(its, placement, visual_index(its, r), v)

\* insert_item of a value among vals with a placement among places at a row
\* among rows, on a storage of fewer than cap nodes.  A row that does not
\* exist in a non-empty tree gives insert an index out of bounds: the
\* precondition failure of insert, which is not recovered.
insert_item_at(cap, places, rows, vals) ==
    /\ ~panicked
    /\ Len(items) < cap
    /\ \E v \in vals, p \in places, r \in rows :
         /\ LET call == [Call("insert_item", r) EXCEPT !.placement = p, !.value = v]
            IN  IF is_empty \/ visual_index(items, r) < Len(items)
                THEN /\ items' = insert_item_items(items, p, r, v)
                     /\ last' = [call EXCEPT !.some = TRUE,
                                   !.idx = insert_item_result(items, p, r)]
                     /\ panicked' = FALSE
                ELSE /\ items' = items
                     /\ last' = call
                     /\ panicked' = TRUE
    /\ UNCHANGED << focus, enabled, callbacks, overflow_checks >>

\* insert_item at any of the rows callers pass
insert_item(cap, places, vals) == insert_item_at(cap, places, Rows, vals)

\* self.focus = cmp::min(self.focus, self.list.height() - 1), unchecked
clamp_focus(f, its) == Min(f, wrapping_sub(height(its), 1))

\* The tail of remove_item and extract_item: returned is the call as it
\* returns, its1 the storage the list is left with.  height() - 1 below zero
\* panics in a build with overflow checks (the list is changed by then and
\* nothing is returned) and wraps in one without.
revalidate_focus(returned, its1) ==
    /\ items' = its1
    /\ IF height(its1) = 0 /\ overflow_checks
       THEN /\ panicked' = TRUE
            /\ focus' = focus
            /\ last' = [Call(returned.op, returned.row) EXCEPT
                           !.underflow = TRUE, !.removed = returned.removed]
       ELSE /\ panicked' = FALSE
            /\ focus' = clamp_focus(focus, its1)
            /\ last' = [returned EXCEPT !.underflow = (height(its1) = 0)]

\* remove_item_items as it would be if it took the node without its subtree
remove_item_items_node_only(its, r) ==
    IF visual_index(its, r) < Len(its)
    THEN remove(its, visual_index(its, r))
    ELSE its

\* the storage after remove_item(r)
remove_item_items(its, r) ==
    IF visual_index(its, r) < Len(its)
    THEN remove_with_children(its, visual_index(its, r))
    ELSE its

\* what remove_item(r) returns: << >> for None, << vals >> for Some(vals)
remove_item_result(its, r) ==
    IF visual_index(its, r) < Len(its)
    THEN << removed_values(its, visual_index(its, r)) >>
    ELSE << >>

remove_item ==
    /\ ~panicked
    /\ \E r \in Rows :
         LET res == remove_item_result(items, r)
         IN  revalidate_focus(
                 [Call("remove_item", r) EXCEPT !.some = (res # << >>),
                     !.vals = IF res # << >> THEN res[1] ELSE << >>,
                     !.removed = IF res # << >> THEN res[1] ELSE << >>],
                 remove_item_items(items, r))
    /\ UNCHANGED << enabled, callbacks, overflow_checks >>

\* extract_item as it would be if it called remove_with_children
extract_item_with_children(its, r) ==
    IF visual_index(its, r) < Len(its)
    THEN remove_with_children(its, visual_index(its, r))
    ELSE its

\* the storage after extract_item(r)
extract_item_items(its, r) ==
    IF visual_index(its, r) < Len(its)
    THEN remove(its, visual_index(its, r))
    ELSE its

\* what extract_item(r) returns: << >> for None, << v >> for Some(v)
extract_item_result(its, r) == get(its, visual_index(its, r))

extract_item ==
    /\ ~panicked
    /\ \E r \in Rows :
         LET res == extract_item_result(items, r)
         IN  revalidate_focus(
                 [Call("extract_item", r) EXCEPT !.some = (res # << >>),
                     !.vals = res, !.removed = res],
                 extract_item_items(items, r))
    /\ UNCHANGED << enabled, callbacks, overflow_checks >>

\* set_collapsed_items as it would be if it took the row for the storage index
set_collapsed_items_by_index(its, r, collapsed) ==
    list_set_collapsed(its, r, collapsed)

\* set_collapsed_items as it would be if the call flipped the flag
set_collapsed_items_toggle(its, r, collapsed) ==
    list_set_collapsed(its, visual_index(its, r),
                       ~its[visual_index(its, r) + 1].collapsed)

\* the storage after set_collapsed(r, collapsed) of the view, r a row that
\* exists (callers collapse and expand rows that exist: what the list does
\* with an index out of bounds is left open by the tree model)
set_collapsed_items(its, r, collapsed) ==
    list_set_collapsed(its, visual_index(its, r), collapsed)

collapse_item ==
    /\ ~panicked
    /\ \E r \in Rows :
         /\ r < height(items)
         /\ items' = set_collapsed_items(items, r, TRUE)
         /\ last' = Call("collapse_item", r)
    /\ UNCHANGED << focus, enabled, callbacks, overflow_checks, panicked >>

\* expand_item as it would be if it expanded the descendants of the row too
expand_item_with_descendants ==
    /\ ~panicked
    /\ \E r \in Rows :
         /\ r < height(items)
         /\ LET index == visual_index(items, r)
            IN  items' = [j \in 1 .. Len(items) |->
                            IF j - 1 >= index /\ j - 1 <= index + items[index + 1].children
                            THEN [items[j] EXCEPT !.collapsed = FALSE]
                            ELSE items[j]]
         /\ last' = Call("expand_item", r)
    /\ UNCHANGED << focus, enabled, callbacks, overflow_checks, panicked >>

expand_item ==
    /\ ~panicked
    /\ \E r \in Rows :
         /\ r < height(items)
         /\ items' = set_collapsed_items(items, r, FALSE)
         /\ last' = Call("expand_item", r)
    /\ UNCHANGED << focus, enabled, callbacks, overflow_checks, panicked >>

set_collapsed ==
    /\ ~panicked
    /\ \E r \in Rows, c \in BOOLEAN :
         /\ r < height(items)
         /\ items' = set_collapsed_items(items, r, c)
         /\ last' = [Call("set_collapsed", r) EXCEPT !.value = IF c THEN "true" ELSE "false"]
    /\ UNCHANGED << focus, enabled, callbacks, overflow_checks, panicked >>

(***************************************************************************)
(* The View implementation: focus and key events.                          *)
(***************************************************************************)
\* How far one drawn line advances list_index: the if of the line drawer.
draw_skip(item) == IF item.collapsed THEN item.children + 1 ELSE 1

RECURSIVE draw_lines(_, _, _)
\* The storage indices the line drawer reads for n consecutive lines when
\* list_index is index at the first of them.  items[*index] with an index
\* out of bounds panics: the sequence then ends with -1.
draw_lines(its, index, n) ==
    IF n = 0 THEN << >>
    ELSE IF index >= Len(its) THEN << 0 - 1 >>
    ELSE << index >> \o draw_lines(its, index + draw_skip(its[index + 1]), n - 1)

\* draw: list_index starts at scrollbase.start_line, and the scroll base
\* calls the line drawer for the rows start_line .. start_line + n - 1.  The
\* scroll base is cursive's; its start_line is any row of the content and it
\* draws at least one and at most all of the rows from there on.  The
\* storage indices read are recorded in vals, the number of lines in idx.
draw ==
    /\ ~panicked
    /\ \E start_line \in 0 .. (height(items) - 1) :
         \E n \in 1 .. (height(items) - start_line) :
            LET read == draw_lines(items, start_line, n)
            IN  /\ last' = [Call("draw", start_line) EXCEPT !.vals = read, !.idx = n]
                /\ panicked' = (read[Len(read)] < 0)
    /\ UNCHANGED << items, focus, enabled, callbacks, overflow_checks >>

\* take_focus as it would be if it did not look at the list
take_focus_of_empty ==
    /\ ~panicked
    /\ last' = [Call("take_focus", 0) EXCEPT !.some = enabled]
    /\ UNCHANGED << items, focus, enabled, callbacks, overflow_checks, panicked >>

\* take_focus: the returned bool is recorded in some
take_focus ==
    /\ ~panicked
    /\ last' = [Call("take_focus", 0) EXCEPT !.some = (enabled /\ ~is_empty)]
    /\ UNCHANGED << items, focus, enabled, callbacks, overflow_checks, panicked >>

Keys == {"Up", "Down", "PageUp", "PageDown", "Home", "End", "Enter", "Char"}

NavKeys == {"Up", "Down", "PageUp", "PageDown", "Home", "End"}

\* the step of PageUp and PageDown
PageStep == 10

\* self.focus -= cmp::min(self.focus, n)
focus_up(f, n) == f - Min(f, n)

\* focus_down as it would be without the clamp to the last row
focus_down_unclamped(f, n, h) == wrapping_add(f, n)

\* self.focus = cmp::min(self.focus + n, self.list.height() - 1), unchecked
focus_down(f, n, h) == Min(wrapping_add(f, n), wrapping_sub(h, 1))

\* TRUE iff the match of on_event has an arm for the key whose guard holds
\* (the guard of Down is computed unchecked here)
arm_taken(key, f, h) ==
    CASE key = "Up" -> f > 0
      [] key = "Down" -> wrapping_add(f, 1) < h
      [] key = "Char" -> FALSE
      [] OTHER -> TRUE

\* the focused row the arm of a navigation key leaves
arm_focus(key, f, h) ==
    CASE key = "Up" -> focus_up(f, 1)
      [] key = "Down" -> focus_down(f, 1, h)
      [] key = "PageUp" -> focus_up(f, PageStep)
      [] key = "PageDown" -> focus_down(f, PageStep, h)
      [] key = "Home" -> 0
      [] key = "End" -> wrapping_sub(h, 1)

\* TRUE iff handling the key subtracts below zero: height() - 1 at height 0
\* (the guard of Down keeps its arm from a view without rows)
arm_underflow(key, f, h) ==
    IF key \in {"PageDown", "End"} THEN h = 0 ELSE FALSE

\* TRUE iff handling the key adds past the largest usize
arm_overflow(key, f, h) ==
    CASE key = "Down" -> f + 1 >= UsizeModulus
      [] key = "PageDown" -> f + PageStep >= UsizeModulus
      [] OTHER -> FALSE

\* select_result as it would be if the select callback were produced whether
\* or not the focused row changed
select_result_unconditional(call, f0, f1) ==
    IF ~is_empty
    THEN [call EXCEPT !.result = "Consumed",
             !.callback = IF on_select THEN RowCallback("select", f1) ELSE NoCallback]
    ELSE [call EXCEPT !.result = "Ignored"]

\* the end of on_event after a navigation arm: the select callback, if the
\* view is not empty and the focused row changed
select_result(call, f0, f1) ==
    IF ~is_empty /\ f0 # f1
    THEN [call EXCEPT !.result = "Consumed",
             !.callback = IF on_select THEN RowCallback("select", f1) ELSE NoCallback]
    ELSE [call EXCEPT !.result = "Ignored"]

\* on_event of a disabled view, or with an event no arm takes
on_event_ignored ==
    /\ ~panicked
    /\ \E key \in Keys :
         /\ ~enabled \/ ~arm_taken(key, focus, height(items))
         /\ ~(enabled /\ key = "Down" /\ overflow_checks
                /\ arm_overflow(key, focus, height(items)))
         /\ last' = [Call("on_event", focus) EXCEPT !.key = key, !.result = "Ignored"]
    /\ UNCHANGED << items, focus, enabled, callbacks, overflow_checks, panicked >>

\* on_event with a navigation key whose arm is taken (or whose guard
\* overflows in a build with overflow checks)
on_event_navigate ==
    /\ ~panicked
    /\ enabled
    /\ \E key \in NavKeys :
         LET h == height(items)
             call == [Call("on_event", focus) EXCEPT !.key = key,
                         !.underflow = arm_underflow(key, focus, h)]
         IN  /\ arm_taken(key, focus, h)
                  \/ (overflow_checks /\ arm_overflow(key, focus, h))
             /\ IF overflow_checks
                     /\ (arm_underflow(key, focus, h) \/ arm_overflow(key, focus, h))
                THEN /\ panicked' = TRUE
                     /\ focus' = focus
                     /\ last' = call
                ELSE /\ panicked' = FALSE
                     /\ focus' = arm_focus(key, focus, h)
                     /\ last' = select_result(call, focus, arm_focus(key, focus, h))
    /\ UNCHANGED << items, enabled, callbacks, overflow_checks >>

\* the storage Enter leaves when the focused row f exists: the node of the
\* row is toggled if it has children
enter_items(its, f) ==
    LET index == visual_index(its, f)
    IN  IF its[index + 1].children > 0
        THEN list_set_collapsed(its, index, ~its[index + 1].collapsed)
        ELSE its

\* enter_callback as it would be if it passed on the state before the toggle
enter_callback_stale(its, f) ==
    LET index == visual_index(its, f)
        collapsed == its[index + 1].collapsed
    IN  IF its[index + 1].children > 0
        THEN IF on_collapse THEN CollapseCallback(f, collapsed) ELSE NoCallback
        ELSE IF on_submit THEN RowCallback("submit", f) ELSE NoCallback

\* the callback Enter returns when the focused row f exists
enter_callback(its, f) ==
    LET index == visual_index(its, f)
        collapsed == its[index + 1].collapsed
    IN  IF its[index + 1].children > 0
        THEN IF on_collapse THEN CollapseCallback(f, ~collapsed) ELSE NoCallback
        ELSE IF on_submit THEN RowCallback("submit", f) ELSE NoCallback

\* the EventResult that carries the callback cb of the Enter arm: without a
\* callback the arm falls through to the end of on_event, where the focused
\* row has not changed
enter_result(call, cb) ==
    IF cb = NoCallback
    THEN [call EXCEPT !.result = "Ignored"]
    ELSE [call EXCEPT !.result = "Consumed", !.callback = cb]

\* on_event with Enter; the view is empty or the focused row exists
on_event_enter ==
    /\ ~panicked
    /\ enabled
    /\ LET call == [Call("on_event", focus) EXCEPT !.key = "Enter"]
       IN  IF is_empty
           THEN /\ items' = items
                /\ last' = [call EXCEPT !.result = "Ignored"]
           ELSE /\ visual_index(items, focus) < Len(items)
                /\ items' = enter_items(items, focus)
                /\ last' = enter_result(call, enter_callback(items, focus))
    /\ UNCHANGED << focus, enabled, callbacks, overflow_checks, panicked >>

\* on_event with Enter while the focused row does not exist: get_collapsed
\* and get_children are asked about an index out of bounds, which the tree
\* model leaves open; they fail, or answer as for a leaf
on_event_enter_no_row ==
    /\ ~panicked
    /\ enabled
    /\ ~is_empty
    /\ visual_index(items, focus) >= Len(items)
    /\ LET call == [Call("on_event", focus) EXCEPT !.key = "Enter"]
       IN  \/ /\ panicked' = TRUE
              /\ last' = call
           \/ /\ panicked' = FALSE
              /\ last' = enter_result(call,
                            IF on_submit THEN RowCallback("submit", focus) ELSE NoCallback)
    /\ UNCHANGED << items, focus, enabled, callbacks, overflow_checks >>

on_event == on_event_ignored \/ on_event_navigate \/ on_event_enter \/ on_event_enter_no_row

\* on_event of a view that has an item
on_event_with_items == ~is_empty /\ on_event

(***************************************************************************)
(* Specifications.                                                         *)
(***************************************************************************)
\* the calls that edit the tree
Edit(cap) ==
    \/ insert_item(cap, Placements, FreshValues(cap, items))
    \/ remove_item
    \/ extract_item
    \/ collapse_item
    \/ expand_item

Next ==
    \/ Edit(ViewLen)
    \/ set_collapsed
    \/ borrow_item
    \/ clear
    \/ take_items
    \/ set_selected_row
    \/ disable
    \/ enable
    \/ set_enabled
    \/ set_on_submit
    \/ set_on_select
    \/ set_on_collapse
    \/ take_focus
    \/ on_event

\* a view and everything its callers do with it
Spec == Init /\ [][Next]_vars

\* a view whose callers only edit the tree
SpecModel == Init /\ [][Edit(MaxLen)]_vars

NextEvents ==
    \/ insert_item(EventLen, Placements, {"item"})
    \/ set_collapsed
    \/ collapse_item
    \/ expand_item
    \/ set_selected_row
    \/ set_on_submit
    \/ set_on_select
    \/ set_on_collapse
    \/ on_event_with_items

\* a view whose callers set up a tree of equal items, register callbacks and
\* send events once the tree has an item
SpecEvents == Init /\ [][NextEvents]_vars

\* Callers of a navigation session build a first root with children (Child
\* at row 0) followed by further roots (SiblingAfter at row 0), so that only
\* the first root can be collapsed, with the Enter key.
NextNav ==
    \/ insert_item_at(NavLen, {"Child", "SiblingAfter"}, {0}, {"item"})
    \/ set_selected_row
    \/ set_on_select
    \/ disable
    \/ enable
    \/ set_enabled
    \/ take_focus
    \/ on_event_with_items

\* a view whose callers build a long list, move the focus, switch the view
\* on and off and send events once the list has an item
SpecNav == Init /\ [][NextNav]_vars

NextDraw ==
    \/ insert_item(DrawLen, Placements, FreshValues(DrawLen, items))
    \/ collapse_item
    \/ expand_item
    \/ borrow_item
    \/ draw

\* a view whose callers build a tree, fold it, read its items and have it
\* drawn
SpecDraw == Init /\ [][NextDraw]_vars

NextScenario ==
    \/ insert_item(ScenarioLen, {"Child"}, FreshValues(ScenarioLen, items))
    \/ remove_item

\* a view whose callers only insert children and remove
SpecScenario == Init /\ [][NextScenario]_vars

(***************************************************************************)
(* Properties.                                                             *)
(***************************************************************************)
Max(a, b) == IF a >= b THEN a ELSE b

\* the number of storage entries strictly after index i and before the next
\* entry that is not deeper than entry i (or the end of the storage)
entries_below(its, i) ==
    LET stops == {j \in (i + 1) .. (Len(its) - 1) : its[j + 1].level <= its[i + 1].level}
        stop == IF stops = {} THEN Len(its)
                ELSE CHOOSE j \in stops : \A k \in stops : j <= k
    IN  stop - i - 1

\* C1: after any sequence of insert_item, remove_item and extract_item calls
\* (and collapse changes), the descendant count of every node equals the
\* number of storage entries between it and the next entry at its depth or
\* above.
C1_DescendantCounts ==
    \A i \in 0 .. (Len(items) - 1) : items[i + 1].children = entries_below(items, i)

\* C1 witness: an extract has left a parent with its one child.
C1_Witness ==
    /\ last.op = "extract_item"
    /\ last.some
    /\ Len(last.before) = 3
    /\ Len(items) = 2
    /\ items[1].children = 1
    /\ items[2].level = 1

\* C2: remove_item, extract_item and borrow_item of a row that does not exist
\* return None, change neither the storage nor the focused row, do not panic
\* and subtract nothing below zero.
C2_AbsentRowIsHarmless ==
    (/\ last.op \in {"remove_item", "extract_item", "borrow_item"}
     /\ last.row >= height(last.before))
    => /\ ~last.some
       /\ items = last.before
       /\ focus = last.focus_before
       /\ ~panicked
       /\ ~last.underflow

\* C3: the focused row is below max(1, visible height) in every state.
C3_FocusInRange == focus < Max(1, height(items))

\* C4: on an enabled view without items the keys Up, Down, PageUp, PageDown,
\* Home, End and Enter change nothing: the focused row and the (empty)
\* storage stay, no callback is produced, row() is None, nothing is
\* subtracted below zero and nothing panics.
C4_EmptyViewKeysAreNoOps ==
    (/\ last.op = "on_event"
     /\ last.key \in NavKeys \cup {"Enter"}
     /\ enabled
     /\ last.before = << >>)
    => /\ focus = last.focus_before
       /\ items = << >>
       /\ last.callback = NoCallback
       /\ row = << >>
       /\ ~last.underflow
       /\ ~panicked

\* C5: insert_item at a row that exists, followed at once by remove_item of
\* the returned index, restores the storage and the visible height and
\* returns exactly the inserted value.
C5_InsertThenRemoveRestores ==
    [][(/\ last.op = "insert_item"
        /\ last.some
        /\ last.row < height(last.before)
        /\ last'.op = "remove_item"
        /\ last'.row = last.idx)
       => /\ items' = last.before
          /\ height(items') = height(last.before)
          /\ last'.some
          /\ last'.vals = << last.value >>]_vars

\* C6: the index insert_item returns for a row that exists is the row of the
\* new item: borrow_item of it yields the inserted value.
C6_InsertReturnsRow ==
    (/\ last.op = "insert_item"
     /\ last.some
     /\ last.row < height(last.before))
    => get(items, visual_index(items, last.idx)) = << last.value >>

\* C7 as stated: the visible height is at most the storage length, and equal
\* to it iff no node is collapsed.
C7_HeightEqualIffNoneCollapsed ==
    /\ height(items) <= Len(items)
    /\ (height(items) = Len(items)) <=> (\A j \in 1 .. Len(items) : ~items[j].collapsed)

\* C7 amended: the visible height is at most the storage length, and equal to
\* it iff no node that has descendants is collapsed.
C7_HeightEqualIffNoParentCollapsed ==
    /\ height(items) <= Len(items)
    /\ (height(items) = Len(items))
         <=> (\A j \in 1 .. Len(items) : items[j].collapsed => items[j].children = 0)

\* C7 witness: collapse_item has collapsed a leaf next to other nodes, and
\* every node is still visible.
C7_Witness ==
    /\ last.op = "collapse_item"
    /\ Len(items) >= 2
    /\ \E j \in 1 .. Len(items) : items[j].collapsed /\ items[j].children = 0
    /\ height(items) = Len(items)

\* the storage of scenario A: "root" inserted into the empty view, then "1",
\* "2" and "3" each as Child of row 0
ScenarioA ==
    insert_item_items(
        insert_item_items(
            insert_item_items(
                insert_item_items(<< >>, "Child", 0, "root"),
                "Child", 0, "1"),
            "Child", 0, "2"),
        "Child", 0, "3")

\* C8: scenario A has height 4, depths 0,1,1,1 and a root with 3 descendants,
\* and remove_item(0) on it returns "root", "1", "2", "3" in this order and
\* leaves the view empty.
C8_RemoveRootOfScenarioA ==
    /\ height(ScenarioA) = 4
    /\ [j \in 1 .. 4 |-> ScenarioA[j].level] = << 0, 1, 1, 1 >>
    /\ ScenarioA[1].children = 3
    /\ (/\ last.op = "remove_item"
        /\ last.row = 0
        /\ last.before = ScenarioA)
       => /\ last.some
          /\ last.vals = << "root", "1", "2", "3" >>
          /\ items = << >>
          /\ height(items) = 0

\* TRUE iff the node at storage index a is a proper ancestor of the node at
\* storage index i, read off the depths
is_ancestor(its, a, i) ==
    /\ a < i
    /\ \A k \in (a + 1) .. i : its[k + 1].level > its[a + 1].level

\* C9: extract_item of a row that exists (storage index i) removes exactly
\* the entry i: every other node keeps its value, its collapse flag and its
\* place in the order, a former descendant of i is one level up, an ancestor
\* of i has one descendant less, nothing else changes, and the call returns
\* the value of node i alone.
C9_ExtractRemovesOneNode ==
    (/\ last.op = "extract_item"
     /\ visual_index(last.before, last.row) < Len(last.before))
    => LET b == last.before
           i == visual_index(b, last.row)
       IN  /\ Len(items) = Len(b) - 1
           /\ \A j \in 0 .. (Len(b) - 1) :
                j # i =>
                  LET old == b[j + 1]
                      new == items[IF j < i THEN j + 1 ELSE j]
                  IN  /\ new.value = old.value
                      /\ new.collapsed = old.collapsed
                      /\ new.level = IF is_ancestor(b, i, j)
                                     THEN old.level - 1 ELSE old.level
                      /\ new.children = IF is_ancestor(b, j, i)
                                        THEN old.children - 1 ELSE old.children
           /\ last.removed = << b[i + 1].value >>
           /\ ~panicked => (last.some /\ last.vals = << b[i + 1].value >>)

\* C9 witness: the root of a root with two children has been extracted; the
\* children are roots now and both visible.
C9_Witness ==
    /\ last.op = "extract_item"
    /\ last.row = 0
    /\ Len(last.before) = 3
    /\ last.before[1].children = 2
    /\ last.before[2].level = 1
    /\ last.before[3].level = 1
    /\ last.vals = << last.before[1].value >>
    /\ Len(items) = 2
    /\ items[1].level = 0
    /\ items[2].level = 0
    /\ height(items) = 2

\* C10: Enter on an enabled view whose focused row f exists toggles the node
\* of the row if it has descendants and then yields the collapse callback
\* with (f, new state) if one is registered; otherwise it changes no node and
\* yields the submit callback with (f) if one is registered.  No other
\* callback is produced and the focused row stays.
C10_EnterTogglesOrSubmits ==
    (/\ last.op = "on_event"
     /\ last.key = "Enter"
     /\ enabled
     /\ last.focus_before < height(last.before))
    => LET b == last.before
           f == last.focus_before
           s == visual_index(b, f)
       IN  /\ ~panicked
           /\ focus = f
           /\ IF b[s + 1].children > 0
              THEN /\ items = [b EXCEPT ![s + 1].collapsed = ~b[s + 1].collapsed]
                   /\ last.callback =
                        IF on_collapse
                        THEN [kind |-> "collapse", row |-> f,
                              collapsed |-> ~b[s + 1].collapsed]
                        ELSE NoCallback
              ELSE /\ items = b
                   /\ last.callback =
                        IF on_submit
                        THEN [kind |-> "submit", row |-> f, collapsed |-> FALSE]
                        ELSE NoCallback

\* C10 witness: Enter on the second row, which is the third node because the
\* first is collapsed over its child, has produced the submit callback.
C10_Witness ==
    /\ last.op = "on_event"
    /\ last.key = "Enter"
    /\ last.focus_before = 1
    /\ visual_index(last.before, 1) = 2
    /\ last.callback = [kind |-> "submit", row |-> 1, collapsed |-> FALSE]

\* what row() returned before the last call
row_before == IF last.before = << >> THEN << >> ELSE << last.focus_before >>

\* C11: a navigation key on an enabled view yields the select callback, with
\* the new focused row, iff a select callback is registered and the focused
\* row (as row() reports it) differs from the one before the event; in every
\* other case no callback of any kind is yielded.  The event is consumed iff
\* the focused row changed.
C11_SelectIffRowChanged ==
    (/\ last.op = "on_event"
     /\ last.key \in NavKeys
     /\ enabled)
    => /\ last.callback =
            IF on_select /\ row # row_before
            THEN [kind |-> "select", row |-> focus, collapsed |-> FALSE]
            ELSE NoCallback
       /\ ~panicked => (last.result = "Consumed" <=> row # row_before)

\* C11 witness: PageDown has moved the focus by a full page and produced the
\* select callback for the new row.
C11_Witness ==
    /\ last.op = "on_event"
    /\ last.key = "PageDown"
    /\ last.focus_before = 1
    /\ focus = 1 + PageStep
    /\ last.callback = [kind |-> "select", row |-> 1 + PageStep, collapsed |-> FALSE]

\* C12: on an enabled view with items whose focused row f is at most h - 1
\* (h the visible height), a navigation key leaves the focused row at
\* Up: max(f - 1, 0), Down: min(f + 1, h - 1), PageUp: max(f - 10, 0),
\* PageDown: min(f + 10, h - 1), Home: 0, End: h - 1, and leaves the storage
\* with every collapse flag as it was.
C12_NavigationArithmetic ==
    (/\ last.op = "on_event"
     /\ last.key \in NavKeys
     /\ enabled
     /\ last.before # << >>
     /\ last.focus_before <= height(last.before) - 1)
    => LET f == last.focus_before
           h == height(last.before)
       IN  /\ ~panicked
           /\ focus = CASE last.key = "Up" -> Max(f - 1, 0)
                        [] last.key = "Down" -> IF f + 1 <= h - 1 THEN f + 1 ELSE h - 1
                        [] last.key = "PageUp" -> Max(f - 10, 0)
                        [] last.key = "PageDown" -> IF f + 10 <= h - 1 THEN f + 10 ELSE h - 1
                        [] last.key = "Home" -> 0
                        [] last.key = "End" -> h - 1
           /\ items = last.before

\* C12 witness: PageUp from the twelfth row of a list of twelve has left the
\* focus on the second row.
C12_Witness ==
    /\ last.op = "on_event"
    /\ last.key = "PageUp"
    /\ enabled
    /\ height(last.before) = 12
    /\ last.focus_before = 11
    /\ focus = 1

\* the visible projection of a storage: the storage index of every row
projection(its) == [r \in 0 .. (height(its) - 1) |-> visual_index(its, r)]

\* C13: set_collapsed(r, true) directly after set_collapsed(r, true) changes
\* nothing: the storage, the visible height and the storage index of every
\* row are those the first call left.
C13_CollapseTwiceIsCollapseOnce ==
    [][(/\ last.op = "set_collapsed"
        /\ last.value = "true"
        /\ last'.op = "set_collapsed"
        /\ last'.value = "true"
        /\ last'.row = last.row)
       => /\ items' = items
          /\ height(items') = height(items)
          /\ projection(items') = projection(items)]_vars

\* C13 witness: set_collapsed(1, true) has been called on a row whose node, a
\* parent below the root, was collapsed already, and has left the storage as
\* it was.
C13_Witness ==
    /\ last.op = "set_collapsed"
    /\ last.value = "true"
    /\ last.row = 1
    /\ Len(last.before) = 3
    /\ last.before[2].children = 1
    /\ last.before[2].collapsed
    /\ items = last.before
    /\ height(items) = 2

\* C14: disable and set_enabled(false) switch the view off and enable
\* switches it on; a key event on a view that is switched off is ignored,
\* yields no callback and leaves the focused row and the storage with its
\* collapse flags as they were; take_focus returns true iff the view is
\* enabled and has an item (so it returns false while the view is off).
C14_DisabledViewIgnoresEvents ==
    /\ last.op = "disable" => ~enabled
    /\ last.op = "enable" => enabled
    /\ last.op = "set_enabled" => (enabled <=> last.value = "true")
    /\ (last.op = "on_event" /\ ~enabled)
         => /\ last.result = "Ignored"
            /\ last.callback = NoCallback
            /\ focus = last.focus_before
            /\ items = last.before
            /\ ~panicked
    /\ last.op = "take_focus" => (last.some <=> (enabled /\ items # << >>))

\* C14 witness: End has been sent to a disabled view with a select callback
\* and twelve rows, the focus on the first; it has been ignored.
C14_Witness ==
    /\ last.op = "on_event"
    /\ last.key = "End"
    /\ ~enabled
    /\ on_select
    /\ height(items) = 12
    /\ focus = 0
    /\ last.result = "Ignored"

\* C15: for every scroll position start_line below the visible height, the
\* walk of draw reads, for each drawn row i >= start_line, the node at storage
\* index visual_index(i), and never reads past the storage.
C15_DrawWalkIsRowTranslation ==
    last.op = "draw"
    => /\ ~panicked
       /\ last.vals = [k \in 1 .. last.idx |->
                         visual_index(last.before, last.row + k - 1)]

\* the storage indices of the nodes without a collapsed proper ancestor,
\* read off the depths
visible_indices(its) ==
    {i \in 0 .. (Len(its) - 1) :
        \A a \in 0 .. (i - 1) : is_ancestor(its, a, i) => ~its[a + 1].collapsed}

\* C16: the visible height is the number of nodes without a collapsed proper
\* ancestor, and visual_index maps the rows below the visible height onto the
\* storage indices of these nodes, one to one and in increasing order; so
\* borrow_item(r) yields the value of the r-th such node, and nothing for a row
\* that is not below the visible height.
C16_RowsAreTheVisibleNodes ==
    LET vis == visible_indices(items)
        h == height(items)
    IN  /\ h = Cardinality(vis)
        /\ {visual_index(items, r) : r \in 0 .. (h - 1)} = vis
        /\ \A r1, r2 \in 0 .. (h - 1) :
              r1 < r2 => visual_index(items, r1) < visual_index(items, r2)
        /\ last.op = "borrow_item" =>
              IF last.row < h
              THEN \E i \in vis :
                     /\ Cardinality({j \in vis : j < i}) = last.row
                     /\ last.some
                     /\ last.vals = << items[i + 1].value >>
              ELSE ~last.some

\* C16 witness: borrow_item(1) has read the third node of a storage whose
\* first node is collapsed over the second.
C16_Witness ==
    /\ last.op = "borrow_item"
    /\ last.row = 1
    /\ Len(items) = 3
    /\ items[1].collapsed
    /\ items[1].children = 1
    /\ visible_indices(items) = {0, 2}
    /\ last.vals = << items[3].value >>

\* the storage index of the node shown in row r, r below the visible height:
\* the node without a collapsed proper ancestor that has r such nodes before it
nth_visible(its, r) ==
    CHOOSE i \in visible_indices(its) :
        Cardinality({j \in visible_indices(its) : j < i}) = r

\* C17: set_collapsed, collapse_item and expand_item of a row that exists,
\* and Enter on an enabled view whose focused row exists, leave the storage
\* as it was but for the collapse flag of the one node shown in that row:
\* length, order, values, depths, descendant counts and the flags of all
\* other nodes are the same.  The flag of the node is the one asked for
\* (Enter: flipped if the node has descendants).
C17_CollapseChangesOneFlag ==
    (\/ last.op \in {"set_collapsed", "collapse_item", "expand_item"}
     \/ /\ last.op = "on_event"
        /\ last.key = "Enter"
        /\ enabled
        /\ last.focus_before < height(last.before))
    => LET b == last.before
           i == nth_visible(b, IF last.op = "on_event"
                                THEN last.focus_before ELSE last.row)
           flag == CASE last.op = "collapse_item" -> TRUE
                     [] last.op = "expand_item" -> FALSE
                     [] last.op = "set_collapsed" -> (last.value = "true")
                     [] last.op = "on_event" ->
                          IF b[i + 1].children > 0
                          THEN ~b[i + 1].collapsed ELSE b[i + 1].collapsed
       IN  /\ Len(items) = Len(b)
           /\ \A j \in 0 .. (Len(b) - 1) :
                /\ items[j + 1].value = b[j + 1].value
                /\ items[j + 1].level = b[j + 1].level
                /\ items[j + 1].children = b[j + 1].children
                /\ items[j + 1].collapsed = IF j = i THEN flag ELSE b[j + 1].collapsed

\* C17 witness: collapse_item(1) has set the flag of the third node, shown in
\* the second row because the first node is collapsed over the second.
C17_Witness ==
    /\ last.op = "collapse_item"
    /\ last.row = 1
    /\ Len(last.before) = 3
    /\ last.before[1].collapsed
    /\ last.before[1].children = 1
    /\ ~last.before[3].collapsed
    /\ items[3].collapsed
    /\ ~items[2].collapsed

\* C18: collapse_item(r) of a row whose node is expanded, followed at once by
\* expand_item(r), restores the storage, the visible height and the storage
\* index of every row; a node that was collapsed before is collapsed after,
\* and its descendants are hidden.  And in every state, for every row r: if
\* r is collapsed, then a hidden descendant d of its node is collapsed, and
\* then r is expanded, d is collapsed and none of the descendants of d is
\* visible.
C18_CollapseThenExpandRestores ==
    /\ [][(/\ last.op = "collapse_item"
            /\ ~last.before[visual_index(last.before, last.row) + 1].collapsed
            /\ last'.op = "expand_item"
            /\ last'.row = last.row)
           => /\ items' = last.before
              /\ height(items') = height(last.before)
              /\ projection(items') = projection(last.before)
              /\ \A d \in 0 .. (Len(last.before) - 1) :
                    last.before[d + 1].collapsed
                    => /\ items'[d + 1].collapsed
                       /\ \A k \in (d + 1) .. (d + last.before[d + 1].children) :
                             k \notin visible_indices(items')]_vars
    /\ [](\A r \in 0 .. (height(items) - 1) :
            LET i == visual_index(items, r)
                closed == set_collapsed_items(items, r, TRUE)
            IN  \A d \in (i + 1) .. (i + items[i + 1].children) :
                  LET opened == set_collapsed_items(list_set_collapsed(closed, d, TRUE), r, FALSE)
                  IN  /\ opened[d + 1].collapsed
                      /\ \A k \in (d + 1) .. (d + items[d + 1].children) :
                            k \notin visible_indices(opened)
                      /\ \A k \in 0 .. (Len(items) - 1) :
                            k # d /\ k # i => opened[k + 1] = items[k + 1])

\* C18 witness: expand_item(0) has expanded a collapsed root whose child is
\* collapsed over a grandchild: the child is a row again, still collapsed,
\* and the grandchild is hidden.
C18_Witness ==
    /\ last.op = "expand_item"
    /\ last.row = 0
    /\ Len(items) = 3
    /\ last.before[1].collapsed
    /\ last.before[1].children = 2
    /\ ~items[1].collapsed
    /\ items[2].collapsed
    /\ items[2].children = 1
    /\ height(last.before) = 1
    /\ height(items) = 2

\* C19: insert_item on a view with items, at a row that exists and shows the
\* node at storage index r (depth d, c descendants), adds exactly one node
\* and returns its storage index p: Child: p = r + 1 at depth d + 1;
\* SiblingBefore: p = r at depth d; SiblingAfter: p = r + c + 1 at depth d.
\* The new node has the inserted value and no descendants; the nodes that
\* were there keep their order, values, depths and collapse flags; the
\* descendant count of every ancestor of the new node is one more and that of
\* every other node is as before.  On an empty view the node becomes index 0
\* at depth 0 whatever the placement.
C19_InsertPlacesOneNode ==
    (last.op = "insert_item" /\ last.some)
    => LET b == last.before
           p == last.idx
       IN  IF b = << >>
           THEN /\ p = 0
                /\ Len(items) = 1
                /\ items[1].value = last.value
                /\ items[1].level = 0
                /\ items[1].children = 0
           ELSE LET r == nth_visible(b, last.row)
                    d == b[r + 1].level
                    c == b[r + 1].children
                IN  /\ p = CASE last.placement = "Child" -> r + 1
                              [] last.placement = "SiblingBefore" -> r
                              [] last.placement = "SiblingAfter" -> r + c + 1
                    /\ Len(items) = Len(b) + 1
                    /\ items[p + 1].value = last.value
                    /\ items[p + 1].level = IF last.placement = "Child" THEN d + 1 ELSE d
                    /\ items[p + 1].children = 0
                    /\ \A j \in 0 .. (Len(b) - 1) :
                         LET old == b[j + 1]
                             k == IF j < p THEN j ELSE j + 1
                         IN  /\ items[k + 1].value = old.value
                             /\ items[k + 1].level = old.level
                             /\ items[k + 1].collapsed = old.collapsed
                             /\ items[k + 1].children =
                                  IF is_ancestor(items, k, p)
                                  THEN old.children + 1 ELSE old.children

\* C19 witness: a SiblingAfter insert at the second row, a child of the
\* root, has put the new node last, as a second child of the root.
C19_Witness ==
    /\ last.op = "insert_item"
    /\ last.placement = "SiblingAfter"
    /\ last.row = 1
    /\ Len(last.before) = 2
    /\ last.before[2].level = 1
    /\ last.idx = 2
    /\ items[3].level = 1
    /\ items[1].children = 2

\* C20: remove_item of a row that exists and shows the node at storage index
\* i, which has c entries below it, removes exactly the c + 1 entries
\* i .. i + c, hidden ones included, and hands back their values in storage
\* order, node i first; every other node keeps its value, depth, collapse
\* flag and place in the order; an ancestor of i has c + 1 descendants less
\* and every other node as many as before.
C20_RemoveTakesTheSubtree ==
    (last.op = "remove_item" /\ last.row < height(last.before))
    => LET b == last.before
           i == nth_visible(b, last.row)
           c == entries_below(b, i)
           taken == [k \in 1 .. (c + 1) |-> b[i + k].value]
       IN  /\ Len(items) = Len(b) - (c + 1)
           /\ \A j \in 0 .. (Len(b) - 1) :
                (j < i \/ j > i + c) =>
                  LET old == b[j + 1]
                      new == items[IF j < i THEN j + 1 ELSE j - c]
                  IN  /\ new.value = old.value
                      /\ new.level = old.level
                      /\ new.collapsed = old.collapsed
                      /\ new.children = IF is_ancestor(b, j, i)
                                        THEN old.children - (c + 1) ELSE old.children
           /\ last.removed = taken
           /\ ~panicked => (last.some /\ last.vals = taken)

\* C20 witness: remove_item(0) has removed a collapsed root with its hidden
\* child and returned both values; the second root is left.
C20_Witness ==
    /\ last.op = "remove_item"
    /\ last.row = 0
    /\ Len(last.before) = 3
    /\ last.before[1].collapsed
    /\ last.before[1].children = 1
    /\ last.vals = << last.before[1].value, last.before[2].value >>
    /\ Len(items) = 1
    /\ items[1].value = last.before[3].value

=============================================================================
